---- MODULE Spec2Model ----
(***************************************************************************)
(* A model of rapids-template-instantiation-reporter.py: the pre-flight    *)
(* check of the external binaries, the enumeration of a target's object    *)
(* files, the per-object kernel extraction, the object/kernel frequency    *)
(* index and the ranked report.                                            *)
(*                                                                         *)
(* Text is modelled by strings, which TLC treats as sequences of           *)
(* characters (Len, SubSeq, Head, Tail and \o apply to them).  A Python    *)
(* dict or Counter is modelled by the sequence of its <<key, value>>       *)
(* items in insertion order, which is the order Python iterates it in.     *)
(*                                                                         *)
(* Not modelled: the "Found ..." lines of log() and the progress line of   *)
(* progress(), which print and change nothing else.                        *)
(***************************************************************************)
EXTENDS Integers, Sequences, FiniteSets, TLC

---------------------------------------------------------------------------
(* Bounds of the model.                                                    *)

\* The build-graph query prints at most MaxInputs lines.
MaxInputs == 2
\* All objects together yield at most MaxOcc kernel lines.
MaxOcc == 3
\* --top-n is at most MaxTopN.
MaxTopN == 2
\* A raw line of the canonicalizer's specification is made of at most
\* MaxPieces pieces.
MaxPieces == 3

---------------------------------------------------------------------------
(* Python's str methods, as used by the program.                           *)

\* top_n is None when --top-n is not given, and <<n>> when it is n
None == <<>>

Some(n) == <<n>>

Whitespace == {" ", "\t"}

StartsWith(s, t) == Len(s) >= Len(t) /\ SubSeq(s, 1, Len(t)) = t

EndsWith(s, t) == Len(s) >= Len(t) /\ SubSeq(s, Len(s) - Len(t) + 1, Len(s)) = t

\* str.replace(old, ""): every non-overlapping occurrence of old, found
\* left to right, is removed; the text left behind is not scanned again.
RECURSIVE Replace(_, _)
Replace(s, old) ==
    IF Len(s) < Len(old) THEN s
    ELSE IF StartsWith(s, old)
         THEN Replace(SubSeq(s, Len(old) + 1, Len(s)), old)
         ELSE SubSeq(s, 1, 1) \o Replace(Tail(s), old)

RECURSIVE LStrip(_)
LStrip(s) ==
    IF Len(s) > 0 /\ SubSeq(s, 1, 1) \in Whitespace THEN LStrip(Tail(s)) ELSE s

RECURSIVE RStrip(_)
RStrip(s) ==
    IF Len(s) > 0 /\ SubSeq(s, Len(s), Len(s)) \in Whitespace
    THEN RStrip(SubSeq(s, 1, Len(s) - 1))
    ELSE s

\* str.strip()
Strip(s) == RStrip(LStrip(s))

\* c in s, for a single character c
Contains(s, c) == \E i \in 1..Len(s) : SubSeq(s, i, i) = c

\* s.split(c)[0]: the text before the first c (all of s when it has none)
SplitFirst(s, c) ==
    IF Contains(s, c)
    THEN LET i == CHOOSE j \in 1..Len(s) :
                      /\ SubSeq(s, j, j) = c
                      /\ \A h \in 1..(j - 1) : SubSeq(s, h, h) # c
         IN  SubSeq(s, 1, i - 1)
    ELSE s

\* extract_template(line)
extract_template(line) ==
    LET stripped == Strip(Replace(Replace(line, "Function"), "void"))
    IN  IF Contains(stripped, "<") THEN SplitFirst(stripped, "<") ELSE stripped

---------------------------------------------------------------------------
(* dict and collections.Counter                                            *)

DictKeys(d) == {d[i][1] : i \in DOMAIN d}

DictHas(d, k) == k \in DictKeys(d)

\* d[k]
DictGet(d, k) == d[CHOOSE i \in DOMAIN d : d[i][1] = k][2]

\* d[k] = v: an existing key keeps its place, a new one goes last
DictSet(d, k, v) ==
    IF DictHas(d, k)
    THEN [i \in DOMAIN d |-> IF d[i][1] = k THEN <<k, v>> ELSE d[i]]
    ELSE Append(d, <<k, v>>)

\* d.setdefault(k, v)
DictSetDefault(d, k, v) == IF DictHas(d, k) THEN d ELSE Append(d, <<k, v>>)

\* the items of a dict, as a set: two dicts are equal (==) when these are
DictItems(d) == {d[i] : i \in DOMAIN d}

\* Counter.__missing__: an absent key counts 0
CounterGet(c, k) == IF DictHas(c, k) THEN DictGet(c, k) ELSE 0

\* Counter(iterable) as a bug would have it: every element is a new entry
CountElementAppends(c, elem) == Append(c, <<elem, 1>>)

\* one step of Counter(iterable): mapping[elem] = mapping.get(elem, 0) + 1
CountElement(c, elem) == DictSet(c, elem, CounterGet(c, elem) + 1)

\* Counter._keep_positive
KeepPositive(c) == SelectSeq(c, LAMBDA item : item[2] > 0)

\* Counter.__iadd__ as a bug would have it: the count is stored, not added
CounterIAddOverwrites(c, k, n) == KeepPositive(DictSet(c, k, n))

\* Counter.__iadd__, for other = Counter({k: n}):
\* self[k] += n, then the entries that are not positive are dropped
CounterIAdd(c, k, n) == KeepPositive(DictSet(c, k, CounterGet(c, k) + n))

\* sum(c.values())
RECURSIVE SumValues(_)
SumValues(c) == IF c = <<>> THEN 0 ELSE Head(c)[2] + SumValues(Tail(c))

\* most_common as a bug would have it: the items as they are, unsorted
MostCommonUnsorted(c) == c

\* Counter.most_common(): sorted(items, key=count, reverse=True), a stable
\* sort: entries of equal count keep their insertion order
RECURSIVE MostCommon(_)
MostCommon(c) ==
    IF c = <<>> THEN <<>>
    ELSE LET i == CHOOSE j \in DOMAIN c :
                      /\ \A h \in DOMAIN c : c[h][2] <= c[j][2]
                      /\ \A h \in 1..(j - 1) : c[h][2] < c[j][2]
         IN  <<c[i]>> \o MostCommon(SubSeq(c, 1, i - 1) \o SubSeq(c, i + 1, Len(c)))

\* s[:n]
SliceTo(s, n) ==
    IF n = None THEN s
    ELSE IF n[1] >= 0 THEN SubSeq(s, 1, IF n[1] < Len(s) THEN n[1] ELSE Len(s))
    ELSE SubSeq(s, 1, IF Len(s) + n[1] > 0 THEN Len(s) + n[1] ELSE 0)

\* the sequences over S of length at most n
SeqsUpTo(S, n) == UNION {[1..k -> S] : k \in 0..n}

RECURSIVE Concat(_)
Concat(ss) == IF ss = <<>> THEN <<>> ELSE Head(ss) \o Concat(Tail(ss))

---------------------------------------------------------------------------
(* The inputs the environment supplies.                                    *)

\* main: binary_names
binary_names == <<"ninja", "grep", "cuobjdump", "cu++filt">>

BinarySet == {binary_names[i] : i \in DOMAIN binary_names}

\* the build directory and the targets of the command line
BuildDir == "b"

Targets == {"a.o", "all"}

\* lines the build-graph query may print: objects, an object with leading
\* whitespace, one with trailing whitespace, and an input that is no object
NinjaLines == {"a.o", " a.o", "c.o", "a.o ", "a.cu"}

\* lines the third stage of the pipeline may print for an object
RawLines == {" Function void k<int>(T1):", " Function void j <T1>():"}

---------------------------------------------------------------------------
VARIABLES
    pc,                \* where main is
    found,             \* the binaries shutil.which located
    stdout,            \* the diagnostic and error lines printed
    started,           \* the binaries run() was called on
    exit_status,       \* None while running, then <<status>>
    object_files,      \* get_object_files' result
    oi,                \* the position in object_files the generator is at
    outcomes,          \* per position extracted: whether a stage raised, and
                       \* what get_kernels returned
    obj_kernel_counts, \* Counter of (obj, kernel)
    obj2kernel, kernel2obj, kernel_counts, obj_counts,
    report,            \* the arguments rendered with, and the sections printed
    line, once, twice, cpc   \* the canonicalizer's own specification

mainVars == <<pc, found, stdout, started, exit_status, object_files, oi, outcomes,
              obj_kernel_counts, obj2kernel, kernel2obj, kernel_counts, obj_counts,
              report>>

canonVars == <<line, once, twice, cpc>>

vars == <<mainVars, canonVars>>

indexVars == <<obj2kernel, kernel2obj, kernel_counts, obj_counts>>

---------------------------------------------------------------------------
(* The program's functions.                                                *)

\* the pre-flight report as a bug would have it: the first missing binary only
MissingLinesFirst(which) ==
    SubSeq(SelectSeq(binary_names, LAMBDA name : name \notin which), 1, 1)

\* main: the line printed for each binary that was not found
MissingLines(which) ==
    SelectSeq(binary_names, LAMBDA name : name \notin which)

\* str(build_dir / rel)
JoinPath(dir, rel) == dir \o "/" \o rel

\* An object file is a str for an input the query listed and a Path for the
\* target itself; the two never compare equal, whatever their text.
StrObj(path) == [kind |-> "str", path |-> path]

PathObj(path) == [kind |-> "Path", path |-> path]

\* what an f-string prints for an object
Text(obj) == obj.path

\* get_object_files, given the lines the query printed and whether
\* build_dir / target exists
get_object_files(lines, target, exists) ==
    LET target_path == JoinPath(BuildDir, target)
        additional_objects ==
            IF exists /\ EndsWith(target_path, ".o")
            THEN <<PathObj(target_path)>>
            ELSE <<>>
        objs == SelectSeq(lines, LAMBDA l : EndsWith(l, ".o"))
    IN  [i \in DOMAIN objs |-> StrObj(JoinPath(BuildDir, Strip(objs[i])))]
            \o additional_objects

\* The stages of get_kernels that can raise: the three run() calls and the
\* decoding of the last one's output.  0 stands for none.
Stages == 1..4

\* the binaries get_kernels has called run() on when stage failAt raises
StagesRun(failAt) ==
    {"cuobjdump"}
        \cup (IF failAt = 1 THEN {} ELSE {"cu++filt"})
        \cup (IF failAt \in {1, 2} THEN {} ELSE {"grep"})

\* get_kernels as a bug would have it: a failure is returned as a record
get_kernelsErrorRecord(raised, lines) ==
    IF raised
    THEN <<"error">>
    ELSE [i \in DOMAIN lines |-> extract_template(lines[i])]

\* get_kernels' return value, given whether a stage raised and the lines of
\* the decoded output: the except clause returns the empty list
get_kernels(raised, lines) ==
    IF raised
    THEN <<>>
    ELSE [i \in DOMAIN lines |-> extract_template(lines[i])]

\* Counter(iterable) as a bug would have it: an element is merged only with
\* the entry counted last
RECURSIVE CountElementsRuns(_, _)
CountElementsRuns(c, elems) ==
    IF elems = <<>> THEN c
    ELSE CountElementsRuns(
             IF c # <<>> /\ c[Len(c)][1] = Head(elems)
             THEN [c EXCEPT ![Len(c)] = <<Head(elems), c[Len(c)][2] + 1>>]
             ELSE Append(c, <<Head(elems), 1>>),
             Tail(elems))

\* Counter(iterable), continued from the Counter c
RECURSIVE CountElements(_, _)
CountElements(c, elems) ==
    IF elems = <<>> THEN c
    ELSE CountElements(CountElement(c, Head(elems)), Tail(elems))

\* main: the tuples the generator yields for obj
ObjKernelTuples(obj, kernels) == [i \in DOMAIN kernels |-> <<obj, kernels[i]>>]

EmptyIndex ==
    [obj2kernel |-> <<>>, kernel2obj |-> <<>>, kernel_counts |-> <<>>, obj_counts |-> <<>>]

\* the loop body as a bug would have it: ctr = ctr + Counter(...) binds a
\* new Counter, and the one in the dict stays as setdefault left it
IndexStepRebinds(ix, item) ==
    LET obj == item[1][1]
        kernel == item[1][2]
        count == item[2]
    IN  [obj2kernel |-> DictSetDefault(ix.obj2kernel, obj, <<>>),
         kernel2obj |-> DictSetDefault(ix.kernel2obj, kernel, <<>>),
         kernel_counts |-> CounterIAdd(ix.kernel_counts, kernel, count),
         obj_counts |-> CounterIAdd(ix.obj_counts, obj, count)]

\* main: the body of the loop over obj_kernel_counts.items()
IndexStep(ix, item) ==
    LET obj == item[1][1]
        kernel == item[1][2]
        count == item[2]
        o2k == DictSetDefault(ix.obj2kernel, obj, <<>>)
        k2o == DictSetDefault(ix.kernel2obj, kernel, <<>>)
    IN  [obj2kernel |-> DictSet(o2k, obj, CounterIAdd(DictGet(o2k, obj), kernel, count)),
         kernel2obj |-> DictSet(k2o, kernel, CounterIAdd(DictGet(k2o, kernel), obj, count)),
         kernel_counts |-> CounterIAdd(ix.kernel_counts, kernel, count),
         obj_counts |-> CounterIAdd(ix.obj_counts, obj, count)]

\* main: the loop over obj_kernel_counts.items()
RECURSIVE IndexLoop(_, _)
IndexLoop(ix, items) ==
    IF items = <<>> THEN ix
    ELSE IndexLoop(IndexStep(ix, Head(items)), Tail(items))

\* main: the entries a ranked list shows
Ranked(counts, top_n) == SliceTo(MostCommon(counts), top_n)

\* what an f-string prints for a key of a ranked list
Printed(key, isObj) == IF isObj THEN Text(key) ELSE key

\* main: the lines of a summary section: the total, the name printed and
\* the size of the entry's histogram
SummaryRows(top, hist, isObj) ==
    [i \in DOMAIN top |->
        [total |-> top[i][2], name |-> Printed(top[i][1], isObj),
         size |-> Len(DictGet(hist, top[i][1]))]]

\* main: the blocks of a details section: a summary line and the entry's
\* histogram, most common first
DetailRows(top, hist, isObj) ==
    [i \in DOMAIN top |->
        [total |-> top[i][2], name |-> Printed(top[i][1], isObj),
         size |-> Len(DictGet(hist, top[i][1])),
         lines |-> LET mc == MostCommon(DictGet(hist, top[i][1]))
                   IN  [j \in DOMAIN mc |-> <<mc[j][2], Printed(mc[j][1], ~isObj)>>]]]

\* main: the sections printed, in order
Sections(ix, top_n, skip_details, skip_kernels, skip_objects) ==
    LET objs == Ranked(ix.obj_counts, top_n)
        kernels == Ranked(ix.kernel_counts, top_n)
    IN  (IF skip_objects THEN <<>>
         ELSE <<[title |-> "Objects with most kernels",
                 rows |-> SummaryRows(objs, ix.obj2kernel, TRUE)]>>)
        \o
        (IF skip_kernels THEN <<>>
         ELSE <<[title |-> "Kernels with most instances",
                 rows |-> SummaryRows(kernels, ix.kernel2obj, FALSE)]>>)
        \o
        (IF skip_details \/ skip_objects THEN <<>>
         ELSE <<[title |-> "Details: Objects",
                 rows |-> DetailRows(objs, ix.obj2kernel, TRUE)]>>)
        \o
        (IF skip_details \/ skip_kernels THEN <<>>
         ELSE <<[title |-> "Details: Kernels",
                 rows |-> DetailRows(kernels, ix.kernel2obj, FALSE)]>>)

---------------------------------------------------------------------------
(* The run of main.                                                        *)

\* the values of --top-n: not given, or a positive integer up to MaxTopN
TopNs == {None} \cup {Some(n) : n \in 1..MaxTopN}

\* the kernel lines extracted so far
Extracted == Len(Concat([i \in DOMAIN outcomes |-> outcomes[i].kernels]))

MainInit ==
    /\ pc = "preflight"
    /\ found \in SUBSET BinarySet
    /\ stdout = <<>>
    /\ started = {}
    /\ exit_status = None
    /\ object_files = <<>>
    /\ oi = 1
    /\ outcomes = <<>>
    /\ obj_kernel_counts = <<>>
    /\ obj2kernel = <<>>
    /\ kernel2obj = <<>>
    /\ kernel_counts = <<>>
    /\ obj_counts = <<>>
    /\ report = None

CanonIdle ==
    /\ line = ""
    /\ once = ""
    /\ twice = ""
    /\ cpc = "idle"

\* main, to the end of the pre-flight check: a line for every binary that
\* is missing and exit(1), or on to the build-graph query
Preflight ==
    /\ pc = "preflight"
    /\ IF found # BinarySet
       THEN /\ stdout' = [i \in DOMAIN MissingLines(found) |->
                             <<"Could not find", MissingLines(found)[i]>>]
            /\ exit_status' = Some(1)
            /\ pc' = "exited"
       ELSE /\ pc' = "enumerate"
            /\ UNCHANGED <<stdout, exit_status>>
    /\ UNCHANGED <<found, started, object_files, oi, outcomes, obj_kernel_counts,
                   indexVars, report, canonVars>>

\* get_object_files when the query fails (it cannot be run, exits non-zero,
\* or prints what is not UTF-8): nothing catches the exception, the
\* interpreter prints the traceback and exits with status 1
QueryFails ==
    /\ pc = "enumerate"
    /\ started' = started \cup {"ninja"}
    /\ exit_status' = Some(1)
    /\ pc' = "crashed"
    /\ UNCHANGED <<found, stdout, object_files, oi, outcomes, obj_kernel_counts,
                   indexVars, report, canonVars>>

\* get_object_files when the query prints lines
QuerySucceeds(lines, target, exists) ==
    /\ pc = "enumerate"
    /\ started' = started \cup {"ninja"}
    /\ object_files' = get_object_files(lines, target, exists)
    /\ pc' = "extract"
    /\ UNCHANGED <<found, stdout, exit_status, oi, outcomes, obj_kernel_counts,
                   indexVars, report, canonVars>>

\* A round of the generator as a bug would have it: get_kernels without its
\* try/except, so that a stage that raises ends the run
ExtractUncaught(failAt, lines) ==
    /\ pc = "extract"
    /\ oi <= Len(object_files)
    /\ failAt # 0 <=> lines = <<>>
    /\ Extracted + Len(lines) <= MaxOcc
    /\ IF failAt # 0
       THEN /\ pc' = "crashed"
            /\ exit_status' = Some(1)
            /\ UNCHANGED <<obj_kernel_counts, outcomes, oi>>
       ELSE /\ obj_kernel_counts' =
                   CountElements(obj_kernel_counts,
                                 ObjKernelTuples(object_files[oi],
                                                 get_kernels(FALSE, lines)))
            /\ outcomes' = Append(outcomes, [failed |-> FALSE,
                                             kernels |-> get_kernels(FALSE, lines)])
            /\ oi' = oi + 1
            /\ UNCHANGED <<pc, exit_status>>
    /\ started' = started \cup StagesRun(failAt)
    /\ UNCHANGED <<found, stdout, object_files, indexVars, report, canonVars>>

\* One round of the generator feeding Counter(): get_kernels on the next
\* object, and every tuple it yields counted.  failAt is the stage that
\* raises (0: none), lines what the last stage printed: some line when no
\* stage raises, since grep exits with status 1 when it selects no line.
Extract(failAt, lines) ==
    /\ pc = "extract"
    /\ oi <= Len(object_files)
    /\ failAt # 0 <=> lines = <<>>
    /\ Extracted + Len(lines) <= MaxOcc
    /\ LET obj == object_files[oi]
           kernels == get_kernels(failAt # 0, lines)
       IN  /\ obj_kernel_counts' =
                  CountElements(obj_kernel_counts, ObjKernelTuples(obj, kernels))
           /\ stdout' = IF failAt # 0
                        THEN Append(stdout, <<"error", Text(obj)>>)
                        ELSE stdout
           /\ outcomes' = Append(outcomes, [failed |-> failAt # 0, kernels |-> kernels])
    /\ started' = started \cup StagesRun(failAt)
    /\ oi' = oi + 1
    /\ UNCHANGED <<pc, found, exit_status, object_files, indexVars, report, canonVars>>

\* main: the index, once the generator is exhausted
BuildIndex ==
    /\ pc = "extract"
    /\ oi > Len(object_files)
    /\ LET ix == IndexLoop(EmptyIndex, obj_kernel_counts)
       IN  /\ obj2kernel' = ix.obj2kernel
           /\ kernel2obj' = ix.kernel2obj
           /\ kernel_counts' = ix.kernel_counts
           /\ obj_counts' = ix.obj_counts
    /\ pc' = "render"
    /\ UNCHANGED <<found, stdout, started, exit_status, object_files, oi, outcomes,
                   obj_kernel_counts, report, canonVars>>

Index ==
    [obj2kernel |-> obj2kernel, kernel2obj |-> kernel2obj,
     kernel_counts |-> kernel_counts, obj_counts |-> obj_counts]

\* main: the report; main returns and the interpreter exits with status 0
Render(top_n, skip_details, skip_kernels, skip_objects) ==
    /\ pc = "render"
    /\ report' = [top_n |-> top_n, skip_details |-> skip_details,
                   skip_kernels |-> skip_kernels, skip_objects |-> skip_objects,
                   sections |-> Sections(Index, top_n, skip_details, skip_kernels,
                                         skip_objects)]
    /\ exit_status' = Some(0)
    /\ pc' = "done"
    /\ UNCHANGED <<found, stdout, started, object_files, oi, outcomes,
                   obj_kernel_counts, indexVars, canonVars>>

Init == MainInit /\ CanonIdle

Next ==
    \/ Preflight
    \/ QueryFails
    \/ \E lines \in SeqsUpTo(NinjaLines, MaxInputs), target \in Targets,
          exists \in BOOLEAN :
            QuerySucceeds(lines, target, exists)
    \/ \E failAt \in {0} \cup Stages, lines \in SeqsUpTo(RawLines, MaxOcc) :
            Extract(failAt, lines)
    \/ BuildIndex
    \/ \E top_n \in TopNs, skip_details \in BOOLEAN, skip_kernels \in BOOLEAN,
          skip_objects \in BOOLEAN :
            Render(top_n, skip_details, skip_kernels, skip_objects)

Spec == Init /\ [][Next]_vars

---------------------------------------------------------------------------
(* extract_template on its own: a raw line is canonicalized, and the       *)
(* result canonicalized again.                                             *)

\* what raw lines are made of: the two tokens, halves of them, a name,
\* whitespace and the template bracket
Pieces == {"Function", "void", "Func", "tion", " ", "<", "k", "::j"}

RECURSIVE PieceLines(_)
PieceLines(n) ==
    IF n = 0 THEN {""}
    ELSE LET shorter == PieceLines(n - 1)
         IN  shorter \cup {l \o p : l \in shorter, p \in Pieces}

CanonLines == PieceLines(MaxPieces)

MainIdle ==
    /\ pc = "idle"
    /\ found = {}
    /\ stdout = <<>>
    /\ started = {}
    /\ exit_status = None
    /\ object_files = <<>>
    /\ oi = 1
    /\ outcomes = <<>>
    /\ obj_kernel_counts = <<>>
    /\ obj2kernel = <<>>
    /\ kernel2obj = <<>>
    /\ kernel_counts = <<>>
    /\ obj_counts = <<>>
    /\ report = None

CanonInit ==
    /\ MainIdle
    /\ line \in CanonLines
    /\ once = ""
    /\ twice = ""
    /\ cpc = "raw"

Canonicalize ==
    /\ cpc = "raw"
    /\ once' = extract_template(line)
    /\ cpc' = "once"
    /\ UNCHANGED <<line, twice, mainVars>>

Recanonicalize ==
    /\ cpc = "once"
    /\ twice' = extract_template(once)
    /\ cpc' = "twice"
    /\ UNCHANGED <<line, once, mainVars>>

CanonNext == Canonicalize \/ Recanonicalize

SpecCanon == CanonInit /\ [][CanonNext]_vars

---------------------------------------------------------------------------
(* What the run has produced, read back from its state.                    *)

\* The index is built: the loop over obj_kernel_counts.items() has ended and
\* the report is about to be printed.  Printing reads the index and leaves it
\* as it is (Render: UNCHANGED indexVars), so what holds of it here holds of
\* it to the end of the run.
Built == pc = "render"

\* main has ended: by exit(1), by an uncaught exception, or by returning
Terminal == {"exited", "crashed", "done"}

\* what get_kernels returned for the object at position i
Returned(i) == outcomes[i].kernels

\* the positions at which get_kernels caught an exception
FailedPositions == {i \in DOMAIN outcomes : outcomes[i].failed}

\* main: the tuples obj_kernel_tuples has yielded, in order, leaving out the
\* positions in skip
StreamWithout(skip) ==
    Concat([i \in DOMAIN outcomes |->
               IF i \in skip THEN <<>>
               ELSE ObjKernelTuples(object_files[i], Returned(i))])

OccurrenceStream == StreamWithout({})

\* the five structures main builds from a stream of tuples
BuildFrom(stream) ==
    LET counts == CountElements(<<>>, stream)
    IN  [obj_kernel_counts |-> counts, index |-> IndexLoop(EmptyIndex, counts)]

\* a dict of Counters, as the set of its items, each Counter as the set of its
HistItems(h) == {<<h[i][1], DictItems(h[i][2])>> : i \in DOMAIN h}

\* the counts of the five structures, whatever order their keys are in
FinalCounts(counts, ix) ==
    [obj_kernel_counts |-> DictItems(counts),
     obj2kernel |-> HistItems(ix.obj2kernel),
     kernel2obj |-> HistItems(ix.kernel2obj),
     kernel_counts |-> DictItems(ix.kernel_counts),
     obj_counts |-> DictItems(ix.obj_counts)]

StateCounts == FinalCounts(obj_kernel_counts, Index)

IndexPermutations(n) == {f \in [1..n -> 1..n] : \A i, j \in 1..n : f[i] = f[j] => i = j}

Permuted(seq, f) == [i \in DOMAIN seq |-> seq[f[i]]]

CountIn(seq, x) == Cardinality({i \in DOMAIN seq : seq[i] = x})

\* sum of obj_kernel_counts over the pairs whose component at place is key
PairSum(place, key) ==
    SumValues(SelectSeq(obj_kernel_counts, LAMBDA item : item[1][place] = key))

ObjectsListed == {object_files[i] : i \in DOMAIN object_files}

KernelsReturned == UNION {{Returned(i)[j] : j \in DOMAIN Returned(i)} : i \in DOMAIN outcomes}

---------------------------------------------------------------------------
(* The claims.                                                             *)

\* C1. Count conservation: once the index is built, the values of obj_counts
\* and those of kernel_counts both sum to the number of (object, kernel)
\* occurrences the extraction loop yielded.
C1_CountConservation ==
    Built =>
        /\ SumValues(obj_counts) = Len(OccurrenceStream)
        /\ SumValues(kernel_counts) = Len(OccurrenceStream)

\* C1's case: several occurrences, over two objects and two kernels, one pair
\* occurring more than once.
C1_Witness ==
    /\ Built
    /\ Len(OccurrenceStream) >= 3
    /\ Len(obj_counts) >= 2
    /\ Len(kernel_counts) >= 2
    /\ \E i \in DOMAIN obj_kernel_counts : obj_kernel_counts[i][2] >= 2

\* C2. Histogram/pair consistency: once the index is built, every object's
\* total equals the sum of its histogram and the sum of obj_kernel_counts
\* over the pairs with that object, and the same holds for every kernel; the
\* totals, the histograms and the pairs have the same objects and kernels.
C2_HistogramConsistency ==
    Built =>
        /\ DictKeys(obj_counts) = DictKeys(obj2kernel)
        /\ DictKeys(obj_counts) = {k[1] : k \in DictKeys(obj_kernel_counts)}
        /\ DictKeys(kernel_counts) = DictKeys(kernel2obj)
        /\ DictKeys(kernel_counts) = {k[2] : k \in DictKeys(obj_kernel_counts)}
        /\ \A o \in DictKeys(obj_counts) :
              /\ DictGet(obj_counts, o) = SumValues(DictGet(obj2kernel, o))
              /\ DictGet(obj_counts, o) = PairSum(1, o)
        /\ \A k \in DictKeys(kernel_counts) :
              /\ DictGet(kernel_counts, k) = SumValues(DictGet(kernel2obj, k))
              /\ DictGet(kernel_counts, k) = PairSum(2, k)

\* C2's case: an object with two kernels and a kernel in two objects.
C2_Witness ==
    /\ Built
    /\ \E i \in DOMAIN obj2kernel : Len(obj2kernel[i][2]) >= 2
    /\ \E i \in DOMAIN kernel2obj : Len(kernel2obj[i][2]) >= 2

\* C3. Duplicates accumulate: while the tuples are counted and when they all
\* are, obj_kernel_counts has one entry per pair, and the count of (o, k) is
\* the number of times get_kernels returned k, summed over the positions
\* extracted at which o is listed.
C3_DuplicatesAccumulate ==
    pc \in {"extract", "render"} =>
        /\ Cardinality(DictKeys(obj_kernel_counts)) = Len(obj_kernel_counts)
        /\ \A i \in DOMAIN obj_kernel_counts : obj_kernel_counts[i][2] >= 1
        /\ DictKeys(obj_kernel_counts) \subseteq ObjectsListed \X KernelsReturned
        /\ \A o \in ObjectsListed, k \in KernelsReturned :
              LET at == {i \in DOMAIN outcomes : object_files[i] = o}
                  times == [i \in DOMAIN outcomes |->
                               IF i \in at THEN CountIn(Returned(i), k) ELSE 0]
                  total == SumValues([i \in DOMAIN times |-> <<i, times[i]>>])
              IN  CounterGet(obj_kernel_counts, <<o, k>>) = total

\* C3's case: an object listed at two positions, a kernel returned for it at
\* both, and twice at one of them.
C3_Witness ==
    \E i, j \in DOMAIN outcomes :
        /\ pc = "render"
        /\ i # j
        /\ object_files[i] = object_files[j]
        /\ \E k \in KernelsReturned :
              /\ CountIn(Returned(i), k) >= 2
              /\ CountIn(Returned(j), k) >= 1
              /\ CounterGet(obj_kernel_counts, <<object_files[i], k>>) >= 3

\* C4. Order independence: the five structures built from any permutation of
\* the occurrence sequence hold the counts of those built from the sequence.
C4_OrderIndependence ==
    Built =>
        \A f \in IndexPermutations(Len(OccurrenceStream)) :
            LET built == BuildFrom(Permuted(OccurrenceStream, f))
            IN  FinalCounts(built.obj_kernel_counts, built.index) = StateCounts

\* C4's case: a permutation of the occurrences that builds the pairs, the
\* objects and the kernels in another order than the run did.
C4_Witness ==
    /\ Built
    /\ \E f \in IndexPermutations(Len(OccurrenceStream)) :
          LET built == BuildFrom(Permuted(OccurrenceStream, f))
          IN  /\ built.obj_kernel_counts # obj_kernel_counts
              /\ built.index.obj_counts # obj_counts
              /\ built.index.kernel_counts # kernel_counts

\* C5. Extraction failure isolation: a failing pipeline makes get_kernels
\* return the empty sequence and print the error, the remaining objects are
\* extracted, the index is the one built from the run without the failing
\* position, and an object whose every extraction fails is in no structure.
C5_FailureIsolation ==
    Built =>
        /\ Len(outcomes) = Len(object_files)
        /\ CountIn([i \in DOMAIN stdout |-> stdout[i][1]], "error")
               = Cardinality(FailedPositions)
        /\ \A i \in FailedPositions :
              /\ Returned(i) = <<>>
              /\ LET without == BuildFrom(StreamWithout({i}))
                 IN  FinalCounts(without.obj_kernel_counts, without.index) = StateCounts
        /\ \A o \in ObjectsListed :
              (\A i \in DOMAIN outcomes : object_files[i] = o => outcomes[i].failed)
                  => /\ o \notin DictKeys(obj_counts)
                     /\ o \notin DictKeys(obj2kernel)
                     /\ \A key \in DictKeys(obj_kernel_counts) : key[1] # o
                     /\ \A h \in DOMAIN kernel2obj : o \notin DictKeys(kernel2obj[h][2])

\* C5's case: three objects, the second one failing, the first and the third
\* in the index.
C5_Witness ==
    /\ Built
    /\ Len(object_files) = 3
    /\ Cardinality(ObjectsListed) = 3
    /\ FailedPositions = {2}
    /\ DictKeys(obj_counts) = {object_files[1], object_files[3]}

\* C6. Pre-flight abort: when a binary is missing, main prints one line for
\* every missing binary and exits with status 1; no external process is
\* started and no report is printed.
C6_PreflightAbort ==
    (found # BinarySet /\ pc # "preflight") =>
        /\ pc = "exited"
        /\ exit_status # None /\ exit_status[1] # 0
        /\ Len(stdout) = Cardinality(BinarySet \ found)
        /\ \A name \in BinarySet :
              CountIn(stdout, <<"Could not find", name>>)
                  = IF name \in found THEN 0 ELSE 1
        /\ started = {}
        /\ outcomes = <<>>
        /\ report = None

\* C6's case: the run has ended with several binaries missing.
C6_Witness ==
    /\ pc = "exited"
    /\ Cardinality(BinarySet \ found) >= 2

\* the titles of the report's sections, and whether the arguments the report
\* was rendered with show a section
SectionTitles ==
    <<"Objects with most kernels", "Kernels with most instances",
      "Details: Objects", "Details: Kernels">>

Shown(title) ==
    /\ title \in {"Objects with most kernels", "Details: Objects"}
           => ~report.skip_objects
    /\ title \in {"Kernels with most instances", "Details: Kernels"}
           => ~report.skip_kernels
    /\ title \in {"Details: Objects", "Details: Kernels"} => ~report.skip_details

RankedCounts(title) ==
    IF title \in {"Objects with most kernels", "Details: Objects"}
    THEN obj_counts
    ELSE kernel_counts

RanksObjects(title) == title \in {"Objects with most kernels", "Details: Objects"}

\* the <<name printed, total>> of a section's lines, and of a Counter's entries
RowPairs(rows) == [i \in DOMAIN rows |-> <<rows[i].name, rows[i].total>>]

EntryPairs(counts, isObj) ==
    [i \in DOMAIN counts |-> <<Printed(counts[i][1], isObj), counts[i][2]>>]

Min(a, b) == IF a < b THEN a ELSE b

\* C10. Top-N ranking and truncation: every ranked list is printed in
\* descending total count; all its entries when top_n is unset, and
\* min(N, number of entries) of them when top_n is a positive N; the lines
\* printed are entries of the list, and no entry left out has a greater
\* total than a printed one.
C10_TopN ==
    pc = "done" =>
        \A s \in DOMAIN report.sections :
            LET rows == report.sections[s].rows
                counts == RankedCounts(report.sections[s].title)
                printed == RowPairs(rows)
                entries == EntryPairs(counts, RanksObjects(report.sections[s].title))
            IN  /\ \A i, j \in DOMAIN rows : i < j => rows[i].total >= rows[j].total
                /\ report.top_n = None => Len(rows) = Len(counts)
                /\ (report.top_n # None /\ report.top_n[1] > 0)
                       => Len(rows) = Min(report.top_n[1], Len(counts))
                /\ \A i \in DOMAIN printed :
                       CountIn(printed, printed[i]) <= CountIn(entries, printed[i])
                /\ \A e \in DOMAIN entries :
                       CountIn(printed, entries[e]) < CountIn(entries, entries[e])
                           => \A i \in DOMAIN rows : rows[i].total >= entries[e][2]

\* C10's case: a positive top_n smaller than the number of objects, and the
\* object printed first not the one counted first.
C10_Witness ==
    /\ pc = "done"
    /\ report.top_n # None /\ report.top_n[1] > 0
    /\ report.top_n[1] < Len(obj_counts)
    /\ \E s \in DOMAIN report.sections :
          /\ report.sections[s].title = "Objects with most kernels"
          /\ report.sections[s].rows[1].total > obj_counts[1][2]

---------------------------------------------------------------------------
(* The claims about extract_template, under SpecCanon.                     *)

\* C8. Canonicalization idempotence: extract_template applied to its own
\* result returns it unchanged.
C8_Idempotence == cpc = "twice" => twice = once

\* C9. KernelIdentity invariant: what extract_template returns has no '<',
\* does not begin with 'Function' or 'void', and has no leading or trailing
\* whitespace.
C9_KernelIdentity ==
    cpc # "raw" =>
        /\ ~Contains(once, "<")
        /\ ~StartsWith(once, "Function")
        /\ ~StartsWith(once, "void")
        /\ Strip(once) = once

====
